---- MODULE Spec2Model ----
(***************************************************************************)
(* DM-MSTP (src/dm_mstp.py): class DMMSTP, its constructor and run().      *)
(*                                                                         *)
(* Node identifiers are the integers 10, 20, ... (opaque keys, disjoint    *)
(* from the dense indices 0..N-1).  A dict is a function, its insertion    *)
(* order a sequence of its keys.  A numpy N x N array is a function        *)
(* 0..N-1 -> 0..N-1 -> weight, a Python list of length N a function on     *)
(* 0..N-1 (mst_path, which only grows by append, is a sequence).           *)
(* np.inf is Inf, a number above every weight.                             *)
(***************************************************************************)
EXTENDS Integers, Sequences, FiniteSets, TLC

\* ---------------------------------------------------------------- bounds
MaxNodes == 3
MaxWeight == 2
MaxEntries == 2

\* np.inf (the sentinel of np.full((n, n), np.inf))
Inf == 99

Nodes == {10 * k : k \in 1..MaxNodes}
Weights == 1..MaxWeight

VARIABLES
    distance_edges,  \* graph_data['distance_edges']: node -> (neighbour -> weight)
    key_order,       \* insertion order of distance_edges' keys
    attrs,           \* names of the instance attributes bound so far
    pc,              \* position in __init__ / run
    matrix, node_indices, min_columns, mst_path, marked_rows, marked_columns,
    selected_edge,   \* run's local selected_edge
    iter,            \* iterations of run's for loop completed
    result           \* what run() returned

vars == <<distance_edges, key_order, attrs, pc, matrix, node_indices, min_columns,
          mst_path, marked_rows, marked_columns, selected_edge, iter, result>>

\* ------------------------------------------------------------- helpers
Min(S) == CHOOSE x \in S : \A y \in S : x <= y
Max(S) == CHOOSE x \in S : \A y \in S : x >= y

Bijections(S, T) == {f \in [S -> T] : \A a, b \in S : a # b => f[a] # f[b]}

RECURSIVE Ascending(_)
Ascending(S) == IF S = {} THEN <<>> ELSE <<Min(S)>> \o Ascending(S \ {Min(S)})

RECURSIVE Descending(_)
Descending(S) == IF S = {} THEN <<>> ELSE <<Max(S)>> \o Descending(S \ {Max(S)})

\* ------------------------------------------------- _initialize_matrix
\* lines 33-36: every identifier that is a key or a neighbour key
NodeSet(de) == DOMAIN de \cup UNION {DOMAIN de[k] : k \in DOMAIN de}

\* line 42
FullInf(n) == [i \in 0..(n - 1) |-> [j \in 0..(n - 1) |-> Inf]]

\* lines 49-50, dropping the mirrored write
WriteEdgeOneWay(m, i, j, w) == [m EXCEPT ![i][j] = w]

\* lines 49-50
WriteEdge(m, i, j, w) == [[m EXCEPT ![i][j] = w] EXCEPT ![j][i] = w]

\* lines 47-50 for one node1: its neighbours in any order (they write disjoint cells)
RECURSIVE FillNeighbors(_, _, _, _, _)
FillNeighbors(m, i, nbrs, idx, todo) ==
    IF todo = {} THEN m
    ELSE LET node2 == CHOOSE x \in todo : TRUE
         IN FillNeighbors(WriteEdge(m, i, idx[node2], nbrs[node2]), i, nbrs, idx, todo \ {node2})

\* lines 45-50: the keys in insertion order
RECURSIVE FillMatrix(_, _, _, _, _)
FillMatrix(m, de, order, idx, k) ==
    IF k > Len(order) THEN m
    ELSE LET node1 == order[k]
         IN FillMatrix(FillNeighbors(m, idx[node1], de[node1], idx, DOMAIN de[node1]),
                       de, order, idx, k + 1)

\* lines 39-52, given the enumeration idx of the node set (line 38)
InitializeMatrix(de, order, idx) == FillMatrix(FullInf(Cardinality(NodeSet(de))), de, order, idx, 1)

\* ------------------------------------------- _initialize_min_columns
Dim(m) == Cardinality(DOMAIN m)

\* line 68 reading the row matrix[col, :] instead of the column
ColMinOfRow(m, col) == Min({m[col][r] : r \in DOMAIN m})

\* np.min(matrix[:, col])
ColMin(m, col) == Min({m[r][col] : r \in DOMAIN m})

\* lines 64-72
InitializeMinColumns(m, marked) ==
    [col \in DOMAIN m |-> IF col \notin marked THEN ColMin(m, col) ELSE Inf]

\* ---------------------------------------------------- _select_edge
\* list.index(x): the first position holding x
ListIndex(l, x) == Min({c \in DOMAIN l : l[c] = x})

\* max(list)
ListMax(l) == Max({l[c] : c \in DOMAIN l})

\* np.argmin(matrix[:, col]): the first row holding the column's minimum
ArgMin(m, col) == Min({r \in DOMAIN m : \A q \in DOMAIN m : m[r][col] <= m[q][col]})

\* lines 90-96 taking the last index of the maximum instead of the first
SelectEdgeLast(mc, m) ==
    LET max_value == ListMax(mc)
        column_index == Max({c \in DOMAIN mc : mc[c] = max_value})
        row_index == ArgMin(m, column_index)
    IN <<row_index, column_index, m[row_index][column_index]>>

\* lines 90-96
SelectEdge(mc, m) ==
    LET max_value == ListMax(mc)
        column_index == ListIndex(mc, max_value)
        row_index == ArgMin(m, column_index)
    IN <<row_index, column_index, m[row_index][column_index]>>

\* --------------------------------------------------- _mark_and_drop
\* lines 112-113 without the column write of line 113
DropRowOnly(m, i, j) == [r \in DOMAIN m |-> [c \in DOMAIN m |-> IF r = i THEN Inf ELSE m[r][c]]]

\* lines 112-113
Drop(m, i, j) ==
    [r \in DOMAIN m |-> [c \in DOMAIN m |-> IF r = i \/ c = j THEN Inf ELSE m[r][c]]]

\* ------------------------------------------------ _generate_mst_output
\* line 122
Inverse(idx) == [v \in {idx[k] : k \in DOMAIN idx} |-> CHOOSE k \in DOMAIN idx : idx[k] = v]

\* lines 122-124
GenerateMstOutput(idx, path) ==
    [k \in 1..Len(path) |-> <<Inverse(idx)[path[k][1]], Inverse(idx)[path[k][2]], path[k][3]>>]

\* ------------------------------------------------------------ inputs
\* the mapping whose neighbour entries are the pairs E (node1, node2), weighted by w,
\* and whose keys are K (a key outside E's sources has an empty neighbour dict)
Mapping(K, E, w) == [k \in K |-> [v \in {x \in Nodes : <<k, x>> \in E} |-> w[<<k, v>>]]]

Sources(E) == {e[1] : e \in E}

\* distance_edges mappings with at most MaxEntries neighbour entries in all, none of a
\* node to itself: one-sided, redundant, redundant with two weights, keys with empty dicts
InputsCtor ==
    UNION {UNION {{Mapping(Sources(E) \cup X, E, w) : w \in [E -> Weights]} :
                  X \in SUBSET (Nodes \ Sources(E))} :
           E \in {F \in SUBSET {e \in Nodes \X Nodes : e[1] # e[2]} : Cardinality(F) <= MaxEntries}}

\* graphs on the first n nodes, every node a key, every edge given once from its
\* lower endpoint: with all n and all weights, every symmetric matrix arises
FirstNodes(n) == {10 * k : k \in 1..n}

\* the complete graph on A=10, B=20, C=30 with A-B=1, A-C=2, B-C=3
K3Input == (10 :> (20 :> 1 @@ 30 :> 2) @@ 20 :> (30 :> 3) @@ 30 :> <<>>)

InputsRun ==
    {K3Input} \cup
    UNION {UNION {{Mapping(FirstNodes(n), E, w) : w \in [E -> Weights]} :
                  E \in SUBSET {e \in FirstNodes(n) \X FirstNodes(n) : e[1] < e[2]}} :
           n \in 0..MaxNodes}

\* insertion orders of the keys considered
KeyOrders(K) == {Ascending(K), Descending(K)}

NoEdge == <<0, 0, 0>>

\* the program before DMMSTP(graph_data)
Init ==
    /\ distance_edges \in InputsCtor
    /\ key_order \in KeyOrders(DOMAIN distance_edges)
    /\ attrs = {}
    /\ pc = "new"
    /\ matrix = <<>>
    /\ node_indices = <<>>
    /\ min_columns = <<>>
    /\ mst_path = <<>>
    /\ marked_rows = {}
    /\ marked_columns = {}
    /\ selected_edge = NoEdge
    /\ iter = 0
    /\ result = <<>>

\* ----------------------------------------------------------- __init__
\* line 15
CtorGraphData ==
    /\ pc = "new"
    /\ attrs' = attrs \cup {"graph_data"}
    /\ pc' = "line16"
    /\ UNCHANGED <<distance_edges, key_order, matrix, node_indices, min_columns, mst_path,
                   marked_rows, marked_columns, selected_edge, iter, result>>

\* line 16: enumerate(nodes) walks a set, in an order the run does not fix
CtorInitializeMatrix ==
    /\ pc = "line16"
    /\ \E idx \in Bijections(NodeSet(distance_edges), 0..(Cardinality(NodeSet(distance_edges)) - 1)) :
          /\ node_indices' = idx
          /\ matrix' = InitializeMatrix(distance_edges, key_order, idx)
    /\ attrs' = attrs \cup {"matrix", "node_indices"}
    /\ pc' = "line17"
    /\ UNCHANGED <<distance_edges, key_order, min_columns, mst_path,
                   marked_rows, marked_columns, selected_edge, iter, result>>

\* line 17: the loop of line 65 reads self.marked_columns at line 66 on its first
\* pass; an attribute that is not bound yet raises AttributeError out of __init__
CtorInitializeMinColumns ==
    /\ pc = "line17"
    /\ IF Dim(matrix) >= 1 /\ "marked_columns" \notin attrs
       THEN /\ pc' = "raised"
            /\ UNCHANGED <<attrs, min_columns>>
       ELSE /\ min_columns' = InitializeMinColumns(matrix, marked_columns)
            /\ attrs' = attrs \cup {"min_columns"}
            /\ pc' = "line18"
    /\ UNCHANGED <<distance_edges, key_order, matrix, node_indices, mst_path,
                   marked_rows, marked_columns, selected_edge, iter, result>>

\* lines 18-20
CtorInitializeMarks ==
    /\ pc = "line18"
    /\ mst_path' = <<>>
    /\ marked_rows' = {}
    /\ marked_columns' = {}
    /\ attrs' = attrs \cup {"mst_path", "marked_rows", "marked_columns"}
    /\ pc' = "run"
    /\ UNCHANGED <<distance_edges, key_order, matrix, node_indices, min_columns,
                   selected_edge, iter, result>>

\* ---------------------------------------------------------------- run
\* range(len(self.node_indices) - 1)
Iterations == Cardinality(DOMAIN node_indices) - 1

\* line 136
RunSelectEdge ==
    /\ pc = "run"
    /\ iter < Iterations
    /\ selected_edge' = SelectEdge(min_columns, matrix)
    /\ pc' = "append"
    /\ UNCHANGED <<distance_edges, key_order, attrs, matrix, node_indices, min_columns,
                   mst_path, marked_rows, marked_columns, iter, result>>

\* line 137
RunAppend ==
    /\ pc = "append"
    /\ mst_path' = Append(mst_path, selected_edge)
    /\ pc' = "mark"
    /\ UNCHANGED <<distance_edges, key_order, attrs, matrix, node_indices, min_columns,
                   marked_rows, marked_columns, selected_edge, iter, result>>

\* line 139: _mark_and_drop, lines 105-113
RunMarkAndDrop ==
    /\ pc = "mark"
    /\ marked_rows' = marked_rows \cup {selected_edge[1]}
    /\ marked_columns' = marked_columns \cup {selected_edge[2]}
    /\ matrix' = Drop(matrix, selected_edge[1], selected_edge[2])
    /\ pc' = "update"
    /\ UNCHANGED <<distance_edges, key_order, attrs, node_indices, min_columns,
                   mst_path, selected_edge, iter, result>>

\* line 140: _update_min_columns, line 81
RunUpdateMinColumns ==
    /\ pc = "update"
    /\ min_columns' = InitializeMinColumns(matrix, marked_columns)
    /\ iter' = iter + 1
    /\ pc' = "run"
    /\ UNCHANGED <<distance_edges, key_order, attrs, matrix, node_indices,
                   mst_path, marked_rows, marked_columns, selected_edge, result>>

\* line 142
RunReturn ==
    /\ pc = "run"
    /\ iter >= Iterations
    /\ result' = GenerateMstOutput(node_indices, mst_path)
    /\ pc' = "returned"
    /\ UNCHANGED <<distance_edges, key_order, attrs, matrix, node_indices, min_columns,
                   mst_path, marked_rows, marked_columns, selected_edge, iter>>

\* ------------------------------------------------------ specifications
AllAttrs == {"graph_data", "matrix", "node_indices", "min_columns", "mst_path",
             "marked_rows", "marked_columns"}

\* DMMSTP(graph_data).run() as main.py's run_dm_mstp calls it.  The loop body of run
\* is no disjunct: construction completes for the empty mapping alone, where
\* range(len(node_indices) - 1) is empty.
Next == CtorGraphData \/ CtorInitializeMatrix \/ CtorInitializeMinColumns
        \/ CtorInitializeMarks \/ RunReturn

Spec == Init /\ [][Next]_vars

\* run() entered on an instance whose attributes hold what lines 15-20 assign, the
\* column minima of line 17 taken over an empty marked set
InitRun ==
    /\ distance_edges \in InputsRun
    /\ key_order = Ascending(DOMAIN distance_edges)
    /\ attrs = AllAttrs
    /\ pc = "run"
    /\ node_indices \in Bijections(NodeSet(distance_edges),
                                   0..(Cardinality(NodeSet(distance_edges)) - 1))
    /\ matrix = InitializeMatrix(distance_edges, key_order, node_indices)
    /\ min_columns = InitializeMinColumns(matrix, {})
    /\ mst_path = <<>>
    /\ marked_rows = {}
    /\ marked_columns = {}
    /\ selected_edge = NoEdge
    /\ iter = 0
    /\ result = <<>>

NextRun == RunSelectEdge \/ RunAppend \/ RunMarkAndDrop \/ RunUpdateMinColumns \/ RunReturn

SpecRun == InitRun /\ [][NextRun]_vars

\* ------------------------------------------------------------- claims
\* N: the number of distinct node identifiers of the input
N == Cardinality(NodeSet(distance_edges))

Indices == 0..(N - 1)

Terminated == pc \in {"returned", "raised"}

Adjacent(de, u, v) ==
    \/ u \in DOMAIN de /\ v \in DOMAIN de[u]
    \/ v \in DOMAIN de /\ u \in DOMAIN de[v]

RECURSIVE Reach(_, _)
Reach(de, S) ==
    LET T == S \cup {v \in NodeSet(de) : \E u \in S : Adjacent(de, u, v)}
    IN IF T = S THEN S ELSE Reach(de, T)

Connected(de) == NodeSet(de) = {} \/ Reach(de, {Min(NodeSet(de))}) = NodeSet(de)

\* C1: for every input with N distinct identifiers, DMMSTP(graph).run() completes
\* after exactly max(N-1, 0) iterations and returns exactly max(N-1, 0) triples, the
\* k-th being the k-th selected edge with both indices translated back to identifiers.
C1_RunReturnsSelectedEdges ==
    Terminated =>
        /\ pc = "returned"
        /\ iter = (IF N >= 1 THEN N - 1 ELSE 0)
        /\ Len(mst_path) = iter
        /\ Len(result) = iter
        /\ \A k \in 1..Len(result) :
              /\ result[k][1] \in NodeSet(distance_edges)
              /\ result[k][2] \in NodeSet(distance_edges)
              /\ node_indices[result[k][1]] = mst_path[k][1]
              /\ node_indices[result[k][2]] = mst_path[k][2]
              /\ result[k][3] = mst_path[k][3]

\* C2: with N = 0 or N = 1, construction and run() never raise, no edge is selected
\* and the output is the empty sequence.
C2_DegenerateInputsReturnEmpty ==
    N <= 1 =>
        /\ pc # "raised"
        /\ mst_path = <<>>
        /\ (pc = "returned" => result = <<>>)

IsK3 ==
    /\ distance_edges = K3Input
    /\ node_indices = (10 :> 0 @@ 20 :> 1 @@ 30 :> 2)

C8_ColumnMinimaAtLoopHead ==
    pc = "run" =>
        /\ DOMAIN min_columns = Indices
        /\ \A c \in Indices :
              IF c \in marked_columns
              THEN min_columns[c] = Inf
              ELSE /\ \E r \in Indices : matrix[r][c] = min_columns[c]
                   /\ \A r \in Indices : matrix[r][c] >= min_columns[c]

\* what the step of line 140 leaves alone
C8_RecomputeFrame ==
    pc = "update" =>
        /\ matrix' = matrix
        /\ marked_rows' = marked_rows
        /\ marked_columns' = marked_columns
        /\ mst_path' = mst_path

C9_MarkAndDropStep ==
    pc = "mark" =>
        LET i == selected_edge[1]
            j == selected_edge[2]
        IN /\ \A c \in Indices : matrix'[i][c] = Inf
           /\ \A r \in Indices : matrix'[r][j] = Inf
           /\ marked_rows' = marked_rows \cup {i}
           /\ marked_columns' = marked_columns \cup {j}
           /\ \A r, c \in Indices : (r # i /\ c # j) => matrix'[r][c] = matrix[r][c]
           /\ DOMAIN matrix' = DOMAIN matrix
           /\ node_indices' = node_indices
           /\ mst_path' = mst_path

C9_MarksGrow == marked_rows \subseteq marked_rows' /\ marked_columns \subseteq marked_columns'

AllSentinelColumns == {c \in Indices : \A r \in Indices : matrix[r][c] = Inf}

C7_MatrixSymmetricAtConstruction ==
    pc = "line17" =>
        /\ DOMAIN node_indices = NodeSet(distance_edges)
        /\ {node_indices[u] : u \in DOMAIN node_indices} = Indices
        /\ \A u, v \in DOMAIN node_indices : u # v => node_indices[u] # node_indices[v]
        /\ DOMAIN matrix = Indices
        /\ \A i \in Indices : DOMAIN matrix[i] = Indices
        /\ \A i, j \in Indices : i # j => matrix[i][j] = matrix[j][i]
        /\ \A u, v \in NodeSet(distance_edges) :
              ~Adjacent(distance_edges, u, v) => matrix[node_indices[u]][node_indices[v]] = Inf

\* the matrix built from an edge given from both endpoints with two different weights
C7_Witness ==
    /\ pc = "line17"
    /\ \E u, v \in DOMAIN distance_edges :
          /\ u # v
          /\ v \in DOMAIN distance_edges[u]
          /\ u \in DOMAIN distance_edges[v]
          /\ distance_edges[u][v] # distance_edges[v][u]
          /\ matrix[node_indices[u]][node_indices[v]] < Inf

====
